---- MODULE Spec2Model ----
(***************************************************************************)
(* cc-audit-log (src/cli.mjs): discovery of session transcripts, the       *)
(* chunked full audit of one transcript, the classification of tool_use    *)
(* blocks, the risk signatures, the selection of sessions and the report.  *)
(*                                                                         *)
(* Text is modelled by TLA+ strings; the character at index i of s is      *)
(* SubSeq(s, i, i).  A JavaScript value that the code does not know to be  *)
(* a string is a record [t |-> type, v |-> value]; an absent property is   *)
(* an absent record field.                                                 *)
(***************************************************************************)
EXTENDS Integers, Sequences, FiniteSets, TLC

VARIABLES
    pc,         \* position of the running function
    file,       \* auditSession: content of the transcript being read
    chunk,      \* auditSession: CHUNK, the size of one read
    position,   \* auditSession: position
    buffer,     \* auditSession: buffer (the incomplete last line)
    audit,      \* auditSession: the accumulators, returned as the audit
    block,      \* the tool_use block handed to the classifier
    handed,     \* auditSession: the lines the loop over lines has been given
    args,       \* main: process.argv.slice(2)
    opts,       \* main: targetDate, showAll, lastN
    disk,       \* the transcript files under PROJECTS_DIR
    sessions,   \* main: what findSessions returned
    toAudit,    \* main: the sessions selected for audit
    idx,        \* main: the place of  for (const session of toAudit)
    totals,     \* main: totalTools, totalCreated, ...
    stdout,     \* what console.log has written
    stderr,     \* what console.error has written
    exitCode    \* the exit status, Running until the process ends

auditVars == <<file, chunk, position, buffer, audit, block, handed>>
mainVars == <<args, opts, disk, sessions, toAudit, idx, totals, stderr, exitCode>>
vars == <<pc, auditVars, mainVars, stdout>>

----------------------------------------------------------------------------
(* Characters and strings *)

CharAt(s, i) == SubSeq(s, i, i)

Chars(s) == {CharAt(s, i) : i \in 1..Len(s)}

\* \w of a JavaScript regular expression
WordChars ==
    Chars("abcdefghijklmnopqrstuvwxyzABCDEFGHIJKLMNOPQRSTUVWXYZ0123456789_")

\* \s of a JavaScript regular expression, and what String.prototype.trim strips
WhiteSpace == {" ", "\t", "\n", "\r", "\f"}

\* what . does not match
LineTerminators == {"\n", "\r"}

LowerCase == "abcdefghijklmnopqrstuvwxyz"
UpperCase == "ABCDEFGHIJKLMNOPQRSTUVWXYZ"

\* the other case of a letter (the i flag compares letters up to case)
OtherCase(c) ==
    IF \E i \in 1..26 : CharAt(LowerCase, i) = c
    THEN CharAt(UpperCase, CHOOSE i \in 1..26 : CharAt(LowerCase, i) = c)
    ELSE IF \E i \in 1..26 : CharAt(UpperCase, i) = c
         THEN CharAt(LowerCase, CHOOSE i \in 1..26 : CharAt(UpperCase, i) = c)
         ELSE c

\* String.prototype.startsWith
StartsWith(s, prefix) ==
    /\ Len(prefix) <= Len(s)
    /\ SubSeq(s, 1, Len(prefix)) = prefix

\* String.prototype.slice(from) with a 0-based from
SliceFrom(s, from) == SubSeq(s, from + 1, Len(s))

\* String.prototype.slice(0, to)
SliceTo(s, to) == IF Len(s) <= to THEN s ELSE SubSeq(s, 1, to)

RECURSIVE TrimStart(_)
TrimStart(s) ==
    IF s # "" /\ CharAt(s, 1) \in WhiteSpace
    THEN TrimStart(SubSeq(s, 2, Len(s)))
    ELSE s

RECURSIVE TrimEnd(_)
TrimEnd(s) ==
    IF s # "" /\ CharAt(s, Len(s)) \in WhiteSpace
    THEN TrimEnd(SubSeq(s, 1, Len(s) - 1))
    ELSE s

\* String.prototype.trim
Trim(s) == TrimEnd(TrimStart(s))

----------------------------------------------------------------------------
(* JavaScript values *)

Str(s) == [t |-> "string", v |-> s]
Num(n) == [t |-> "number", v |-> n]
Undefined == [t |-> "undefined"]

\* obj.key
Get(obj, key) == IF key \in DOMAIN obj THEN obj[key] ELSE Undefined

Truthy(x) ==
    \/ x.t = "string" /\ x.v # ""
    \/ x.t = "number" /\ x.v # 0
    \/ x.t = "object"

\* x || y
OrElse(x, y) == IF Truthy(x) THEN x ELSE y

IsString(x) == x.t = "string"

\* the string a value is converted to by a regular expression test or a
\* template literal
ToStr(x) ==
    IF x.t = "string" THEN x.v
    ELSE IF x.t = "number" THEN ToString(x.v)
    ELSE IF x.t = "object" THEN "[object Object]"
    ELSE "undefined"

----------------------------------------------------------------------------
(* Regular expressions: the constructs RISK_PATTERNS and auditSession use *)

ReSet(cs) == [k |-> "set", cs |-> cs]
ReLit(s) == [k |-> "seq", rs |-> [i \in 1..Len(s) |-> ReSet({CharAt(s, i)})]]
ReSeq(rs) == [k |-> "seq", rs |-> rs]
ReAlt(rs) == [k |-> "alt", rs |-> rs]
RePlus(r) == [k |-> "plus", r |-> r]
ReStar(r) == [k |-> "star", r |-> r]
ReDot == [k |-> "dot"]
ReWordB == [k |-> "wb"]
ReBegin == [k |-> "bol"]
ReSpace == ReSet(WhiteSpace)

IsWordAt(s, i) == i >= 1 /\ i <= Len(s) /\ CharAt(s, i) \in WordChars

\* \b at position i, which lies between the characters i-1 and i
WordBoundary(s, i) == IsWordAt(s, i - 1) # IsWordAt(s, i)

CharMatches(c, cs, ignoreCase) ==
    c \in cs \/ (ignoreCase /\ OtherCase(c) \in cs)

RECURSIVE MatchFrom(_, _, _, _)
RECURSIVE MatchSeq(_, _, _, _, _)
RECURSIVE MatchClosure(_, _, _, _)

\* the positions at which a match of re that starts at a position of from
\* can end
MatchFrom(re, s, ignoreCase, from) ==
    CASE re.k = "set" ->
           {i + 1 : i \in {j \in from :
                j <= Len(s) /\ CharMatches(CharAt(s, j), re.cs, ignoreCase)}}
      [] re.k = "dot" ->
           {i + 1 : i \in {j \in from :
                j <= Len(s) /\ CharAt(s, j) \notin LineTerminators}}
      [] re.k = "wb" -> {i \in from : WordBoundary(s, i)}
      [] re.k = "bol" -> {i \in from : i = 1}
      [] re.k = "seq" -> MatchSeq(re.rs, 1, s, ignoreCase, from)
      [] re.k = "alt" ->
           UNION {MatchFrom(re.rs[n], s, ignoreCase, from) : n \in 1..Len(re.rs)}
      [] re.k = "star" -> MatchClosure(re.r, s, ignoreCase, from)
      [] re.k = "plus" ->
           MatchClosure(re.r, s, ignoreCase, MatchFrom(re.r, s, ignoreCase, from))

MatchSeq(rs, n, s, ignoreCase, from) ==
    IF n > Len(rs) \/ from = {} THEN from
    ELSE MatchSeq(rs, n + 1, s, ignoreCase, MatchFrom(rs[n], s, ignoreCase, from))

MatchClosure(r, s, ignoreCase, from) ==
    LET more == from \cup MatchFrom(r, s, ignoreCase, from)
    IN  IF more = from THEN from ELSE MatchClosure(r, s, ignoreCase, more)

\* RegExp.prototype.test (no g or y flag: the search starts anywhere)
RegExpTest(re, ignoreCase, s) ==
    MatchFrom(re, s, ignoreCase, 1..(Len(s) + 1)) # {}

rp(re, ignoreCase, label) ==
    [pattern |-> re, ignoreCase |-> ignoreCase, label |-> label]

\* \bA\s+B\b
TwoWords(a, b) ==
    ReSeq(<<ReWordB, ReLit(a), RePlus(ReSpace), ReLit(b), ReWordB>>)

RISK_PATTERNS == <<
    rp(TwoWords("rm", "-rf"), FALSE, "Recursive delete (rm -rf)"),
    rp(ReSeq(<<ReWordB, ReLit("git"), RePlus(ReSpace), ReLit("push"),
               RePlus(ReSpace), ReLit("--force"), ReWordB>>),
       FALSE, "Force push"),
    rp(ReSeq(<<ReWordB, ReLit("git"), RePlus(ReSpace), ReLit("reset"),
               RePlus(ReSpace), ReLit("--hard"), ReWordB>>),
       FALSE, "Hard reset"),
    rp(ReSeq(<<ReWordB, ReLit("git"), RePlus(ReSpace), ReLit("clean"),
               RePlus(ReSpace), ReLit("-fd"), ReWordB>>),
       FALSE, "Git clean"),
    rp(ReSeq(<<ReWordB, ReLit("curl"), ReWordB, ReStar(ReDot), ReWordB,
               ReLit("-X"), ReStar(ReSpace), ReLit("POST"), ReWordB>>),
       FALSE, "HTTP POST request"),
    rp(ReSeq(<<ReWordB, ReLit("curl"), ReWordB, ReStar(ReDot), ReWordB,
               ReLit("--data"), ReWordB>>),
       FALSE, "HTTP POST with data"),
    rp(TwoWords("npm", "publish"), FALSE, "npm publish"),
    rp(ReSeq(<<ReWordB, ReLit("drop"), RePlus(ReSpace),
               ReAlt(<<ReLit("table"), ReLit("database")>>), ReWordB>>),
       TRUE, "Database drop"),
    rp(ReSeq(<<ReWordB, ReLit("sudo"), ReWordB>>), FALSE, "Sudo command"),
    rp(TwoWords("chmod", "777"), FALSE, "Chmod 777"),
    rp(TwoWords("kill", "-9"), FALSE, "Force kill") >>

\* /git\s+commit/ and /git\s+push/
GitCommitRe == ReSeq(<<ReLit("git"), RePlus(ReSpace), ReLit("commit")>>)
GitPushRe == ReSeq(<<ReLit("git"), RePlus(ReSpace), ReLit("push")>>)

\* /^(ls|cat|head|tail|echo|pwd|date|wc|grep|find)\s/
NoisyPrograms ==
    <<"ls", "cat", "head", "tail", "echo", "pwd", "date", "wc", "grep", "find">>
NoisyRe ==
    ReSeq(<<ReBegin,
            ReAlt([n \in 1..Len(NoisyPrograms) |-> ReLit(NoisyPrograms[n])]),
            ReSpace>>)

----------------------------------------------------------------------------
(* The classifier of auditSession *)

\* os.homedir() of the machine the tool runs on
HomeDir == "/home/u"

\* the value that stands for a missing record.timestamp
NoTimestamp == 0 - 1

Result(a, thrown) == [audit |-> a, thrown |-> thrown]

\* shortenPath(p): calling p.startsWith on a value that is no string throws
ShortenPathThrows(p) == ~IsString(p)

\* shortenPath that leaves the home directory in place
shortenPathUnshortened(p) == p.v

shortenPath(p) ==
    IF StartsWith(p.v, HomeDir) THEN "~" \o SliceFrom(p.v, Len(HomeDir)) ELSE p.v

\* Set.prototype.add on a set kept in insertion order
SetAdd(set, x) ==
    IF \E i \in 1..Len(set) : set[i] = x THEN set ELSE Append(set, x)

\* cmd.length > 80 ? cmd.slice(0, 77) + '...' : cmd
ShortCmd(cmd) ==
    IF IsString(cmd) /\ Len(cmd.v) > 80
    THEN Str(SliceTo(cmd.v, 77) \o "...")
    ELSE cmd

\* the keys of a tool input, in the order JSON.stringify writes them
InputKeys == <<"file_path", "command", "description", "pattern", "url">>

JsonValue(x) == IF IsString(x) THEN "\"" \o x.v \o "\"" ELSE ToStr(x)

RECURSIVE JsonMembers(_, _, _)
JsonMembers(input, n, first) ==
    IF n > Len(InputKeys) THEN ""
    ELSE IF InputKeys[n] \in DOMAIN input
         THEN (IF first THEN "" ELSE ",") \o "\"" \o InputKeys[n] \o "\":"
              \o JsonValue(input[InputKeys[n]]) \o JsonMembers(input, n + 1, FALSE)
         ELSE JsonMembers(input, n + 1, first)

\* JSON.stringify(input)
JsonStringify(input) == "{" \o JsonMembers(input, 1, TRUE) \o "}"

\* the tools the default case does not report
SilentTools == {"NotebookEdit", "WebFetch", "WebSearch", "TaskOutput", "TaskStop"}

Action(ts, type, detail) == [ts |-> ts, type |-> type, detail |-> detail]

\* for (const rp of RISK_PATTERNS) if (rp.pattern.test(cmd)) riskFlags.push(..)
RECURSIVE RiskScan(_, _, _, _, _)
RiskScan(patterns, n, flags, ts, cmd) ==
    IF n > Len(patterns) THEN flags
    ELSE RiskScan(patterns, n + 1,
            IF RegExpTest(patterns[n].pattern, patterns[n].ignoreCase, ToStr(cmd))
            THEN Append(flags, [ts |-> ts, label |-> patterns[n].label,
                                cmd |-> ShortCmd(cmd)])
            ELSE flags,
            ts, cmd)

\* Significant without its test of the leading program
SignificantByLengthOnly(trimmed) == Len(trimmed) > 5

\* the test that lets a Bash command into the timeline
Significant(trimmed) ==
    ~RegExpTest(NoisyRe, FALSE, trimmed) /\ Len(trimmed) > 5

\* case 'Write'
CaseWrite(a, ts, input) ==
    LET p == OrElse(Get(input, "file_path"), Str(""))
    IN  IF ShortenPathThrows(p) THEN Result(a, TRUE)
        ELSE Result([a EXCEPT
                !.filesCreated = SetAdd(@, shortenPath(p)),
                !.actions = Append(@, Action(ts, "create",
                                Str("Created " \o shortenPath(p))))], FALSE)

\* case 'Edit'
CaseEdit(a, ts, input) ==
    LET p == OrElse(Get(input, "file_path"), Str(""))
    IN  IF ShortenPathThrows(p) THEN Result(a, TRUE)
        ELSE Result([a EXCEPT
                !.filesModified = SetAdd(@, shortenPath(p)),
                !.actions = Append(@, Action(ts, "modify",
                                Str("Modified " \o shortenPath(p))))], FALSE)

\* case 'Read'
CaseRead(a, ts, input) ==
    LET p == OrElse(Get(input, "file_path"), Str(""))
    IN  IF ShortenPathThrows(p) THEN Result(a, TRUE)
        ELSE Result([a EXCEPT !.filesRead = SetAdd(@, shortenPath(p))], FALSE)

\* case 'Bash'
CaseBash(a, ts, input) ==
    LET cmd == OrElse(Get(input, "command"), Str(""))
        desc == OrElse(Get(input, "description"), Str(""))
        shortCmd == ShortCmd(cmd)
        a1 == [a EXCEPT !.bashCommands =
                    Append(@, [ts |-> ts, cmd |-> cmd, desc |-> desc])]
        a2 == IF RegExpTest(GitCommitRe, FALSE, ToStr(cmd))
              THEN [a1 EXCEPT
                      !.gitCommits = Append(@, [ts |-> ts, cmd |-> shortCmd]),
                      !.actions = Append(@, Action(ts, "git", Str("Git commit")))]
              ELSE IF RegExpTest(GitPushRe, FALSE, ToStr(cmd))
              THEN [a1 EXCEPT !.actions = Append(@, Action(ts, "git",
                                Str("Git push: " \o ToStr(shortCmd))))]
              ELSE a1
        a3 == [a2 EXCEPT !.riskFlags = RiskScan(RISK_PATTERNS, 1, @, ts, cmd)]
    IN  IF ~IsString(cmd) THEN Result(a3, TRUE)      \* cmd.trim is no function
        ELSE IF Significant(Trim(cmd.v))
        THEN Result([a3 EXCEPT !.actions =
                        Append(@, Action(ts, "bash", OrElse(desc, shortCmd)))], FALSE)
        ELSE Result(a3, FALSE)

\* case 'Task'
CaseTask(a, ts, input) ==
    LET desc == OrElse(Get(input, "description"), Str("subagent"))
    IN  Result([a EXCEPT !.actions = Append(@, Action(ts, "task",
                    Str("Spawned agent: " \o ToStr(desc))))], FALSE)

\* default
CaseOther(a, ts, b, input) ==
    IF "name" \in DOMAIN b /\ b.name # "" /\ b.name \notin SilentTools
    THEN Result([a EXCEPT !.actions = Append(@, Action(ts, "other",
                    Str(b.name \o ": " \o SliceTo(JsonStringify(input), 60))))], FALSE)
    ELSE Result(a, FALSE)

EmptyInput == [x \in {} |-> Undefined]

\* the body of  for (const block of content)  for one block
ProcessBlock(a, ts, b) ==
    IF "t" \in DOMAIN b THEN Result(a, TRUE)         \* null.type throws
    ELSE IF ~("type" \in DOMAIN b /\ b.type = "tool_use") THEN Result(a, FALSE)
    ELSE LET a1 == [a EXCEPT !.toolCallCount = @ + 1]
             input == IF "input" \in DOMAIN b THEN b.input ELSE EmptyInput
             name == IF "name" \in DOMAIN b THEN b.name ELSE ""
         IN  CASE name = "Write" -> CaseWrite(a1, ts, input)
               [] name = "Edit" -> CaseEdit(a1, ts, input)
               [] name = "Read" -> CaseRead(a1, ts, input)
               [] name = "Bash" -> CaseBash(a1, ts, input)
               [] name = "Task" -> CaseTask(a1, ts, input)
               [] name \in {"Glob", "Grep"} -> Result(a1, FALSE)
               [] OTHER -> CaseOther(a1, ts, b, input)

\* the accumulators auditSession starts with
EmptyAudit ==
    [actions |-> <<>>, filesCreated |-> <<>>, filesModified |-> <<>>,
     filesRead |-> <<>>, bashCommands |-> <<>>, gitCommits |-> <<>>,
     riskFlags |-> <<>>, toolCallCount |-> 0]

----------------------------------------------------------------------------
(* Transcript lines.  The JSON text of a record is written "{" id "}",     *)
(* with any number of "." before the "}" standing for more of the same     *)
(* record's text; id names a value of Records.  Every other text, a        *)
(* truncated record among them, is no JSON.                                *)
(*                                                                         *)
(* A file is a string of bytes.  An ASCII byte is written as its           *)
(* character; the two bytes of the UTF-8 form of one character outside     *)
(* ASCII (C3 A9, e with acute accent) are written "[" and "]".  In decoded  *)
(* text that character is written "@" and U+FFFD, the replacement          *)
(* character, is written "?".  The record "{w" name "}" is a Write of the  *)
(* file /home/u/<name>.py.                                                 *)

\* buf.toString('utf8', start, end): a byte sequence that is not the whole
\* UTF-8 form of a character decodes to U+FFFD, byte by byte
RECURSIVE Utf8DecodeFrom(_, _)
Utf8DecodeFrom(bytes, i) ==
    IF i > Len(bytes) THEN ""
    ELSE IF CharAt(bytes, i) = "["
         THEN IF i < Len(bytes) /\ CharAt(bytes, i + 1) = "]"
              THEN "@" \o Utf8DecodeFrom(bytes, i + 2)
              ELSE "?" \o Utf8DecodeFrom(bytes, i + 1)
         ELSE IF CharAt(bytes, i) = "]"
              THEN "?" \o Utf8DecodeFrom(bytes, i + 1)
              ELSE CharAt(bytes, i) \o Utf8DecodeFrom(bytes, i + 1)

toStringUtf8(bytes) == Utf8DecodeFrom(bytes, 1)

Array(blocks) == [t |-> "array", v |-> blocks]
Null == [t |-> "null"]

ToolUse(name, input) == [type |-> "tool_use", name |-> name, input |-> input]

Assistant(ts, blocks) ==
    [type |-> "assistant", timestamp |-> ts, message |-> [content |-> Array(blocks)]]

Records ==
    "1" :> Assistant(1, <<ToolUse("Write", [file_path |-> Str("/home/u/proj/a.py")])>>)
 @@ "2" :> Assistant(2, <<ToolUse("Bash", [command |-> Str("rm -rf /tmp/x")])>>)
 @@ "3" :> Assistant(3, <<ToolUse("Bash", [command |-> Str("git commit -m \"x\""),
                                            description |-> Str("Commit")])>>)
 @@ "4" :> Assistant(4, <<ToolUse("Write", [file_path |-> Num(7)]),
                          ToolUse("Read", [file_path |-> Str("/etc/hosts")])>>)
 @@ "5" :> [type |-> "user", timestamp |-> 5,
            message |-> [content |-> Array(<<ToolUse("Write",
                                        [file_path |-> Str("/tmp/u.txt")])>>)]]
 @@ "6" :> [type |-> "assistant", timestamp |-> 6,
            message |-> [content |-> Str("done")]]
 @@ "7" :> Assistant(7, <<[type |-> "text"],
                          ToolUse("Edit", [file_path |-> Str("/home/u/proj/a.py")]),
                          ToolUse("Glob", [pattern |-> Str("*.py")]),
                          ToolUse("Task", [description |-> Str("review")]),
                          [type |-> "tool_use", name |-> "TodoWrite"],
                          ToolUse("WebFetch", [url |-> Str("http://x")])>>)
 @@ "8" :> [type |-> "file-history-snapshot", snapshot |-> [timestamp |-> 50]]
 @@ "9" :> [type |-> "summary"]
 @@ "0" :> Null
 @@ "a" :> [type |-> "user", timestamp |-> 30]
 @@ "c" :> [type |-> "user", timestamp |-> 26]

\* the record of the text "{w" name "}"
WriteOf(name) ==
    Assistant(8, <<ToolUse("Write", [file_path |-> Str("/home/u/" \o name \o ".py")])>>)

\* JSON.parse(text): ok is FALSE where it throws a SyntaxError
JsonParse(text) ==
    LET t == Trim(text)
        ok == /\ Len(t) >= 3
              /\ CharAt(t, 1) = "{"
              /\ CharAt(t, Len(t)) = "}"
              /\ CharAt(t, 2) \in DOMAIN Records \cup {"w"}
              /\ \A i \in 3..(Len(t) - 1) : CharAt(t, i) \in {".", "@", "?"}
    IN  IF ~ok THEN [ok |-> FALSE]
        ELSE IF CharAt(t, 2) = "w"
        THEN [ok |-> TRUE, value |-> WriteOf(SubSeq(t, 3, Len(t) - 1))]
        ELSE [ok |-> TRUE, value |-> Records[CharAt(t, 2)]]

IsNull(x) == "t" \in DOMAIN x /\ x.t = "null"

\* String.prototype.split(sep) for a separator of one character
RECURSIVE SplitFrom(_, _, _, _)
SplitFrom(s, sep, i, start) ==
    IF i > Len(s) THEN <<SubSeq(s, start, Len(s))>>
    ELSE IF CharAt(s, i) = sep
         THEN <<SubSeq(s, start, i - 1)>> \o SplitFrom(s, sep, i + 1, i + 1)
         ELSE SplitFrom(s, sep, i + 1, start)

SplitOn(s, sep) == SplitFrom(s, sep, 1, 1)

\* buffer.split('\n')
Split(s) == SplitOn(s, "\n")

\* for (const block of content) { ... }: a throw leaves the loop
RECURSIVE ProcessBlocks(_, _, _, _)
ProcessBlocks(a, ts, blocks, n) ==
    IF n > Len(blocks) THEN a
    ELSE LET r == ProcessBlock(a, ts, blocks[n])
         IN  IF r.thrown THEN r.audit ELSE ProcessBlocks(r.audit, ts, blocks, n + 1)

\* the body of  for (const line of lines)  for one line
ProcessLine(a, line) ==
    IF Trim(line) = "" THEN a
    ELSE LET parsed == JsonParse(line)
         IN  IF ~parsed.ok THEN a
             ELSE LET record == parsed.value
                  IN  IF IsNull(record) THEN a      \* null.type throws
                      ELSE IF ~("type" \in DOMAIN record /\ record.type = "assistant")
                      THEN a
                      ELSE IF ~("message" \in DOMAIN record
                                /\ "content" \in DOMAIN record.message
                                /\ record.message.content.t = "array")
                      THEN a
                      ELSE ProcessBlocks(a,
                               IF "timestamp" \in DOMAIN record
                               THEN record.timestamp ELSE NoTimestamp,
                               record.message.content.v, 1)

RECURSIVE ProcessLines(_, _, _)
ProcessLines(a, lines, n) ==
    IF n > Len(lines) THEN a
    ELSE ProcessLines(ProcessLine(a, lines[n]), lines, n + 1)

Min(x, y) == IF x <= y THEN x ELSE y

\* (await fh.stat()).size
FileSize(content) == Len(content)

\* one turn of  while (position < fileSize)
ReadStep(content, size, st) ==
    LET n == Min(size, FileSize(content) - st.position)
        readBuf == SubSeq(content, st.position + 1, st.position + n)
        lines == Split(st.buffer \o toStringUtf8(readBuf))
    IN  [position |-> st.position + n,
         buffer |-> lines[Len(lines)],
         lines |-> SubSeq(lines, 1, Len(lines) - 1),
         audit |-> ProcessLines(st.audit, SubSeq(lines, 1, Len(lines) - 1), 1)]

\* auditSession(session) on a file that stays readable
RECURSIVE AuditLoop(_, _, _)
AuditLoop(content, size, st) ==
    IF st.position < FileSize(content)
    THEN AuditLoop(content, size, ReadStep(content, size, st))
    ELSE st.audit

auditSession(content, size) ==
    AuditLoop(content, size, [position |-> 0, buffer |-> "", audit |-> EmptyAudit])

----------------------------------------------------------------------------
(* Values of the variables a specification does not use *)

\* the exit status of a process that has not ended
Running == 0 - 1

NoOpts == [targetDate |-> "", showAll |-> FALSE, lastN |-> 1]
NoTotals ==
    [tools |-> 0, created |-> 0, modified |-> 0, bash |-> 0, commits |-> 0,
     risks |-> 0]

MainIdle ==
    /\ args = <<>> /\ opts = NoOpts /\ disk = <<>> /\ sessions = <<>>
    /\ toAudit = <<>> /\ idx = 1 /\ totals = NoTotals /\ stderr = <<>>
    /\ exitCode = Running

ReaderIdle ==
    /\ file = "" /\ chunk = 1 /\ position = 0 /\ buffer = ""
    /\ handed = <<>>

NoBlock == [type |-> "none"]

----------------------------------------------------------------------------
(* SpecClassify: the classifier applied to one Bash tool_use block *)

LongCommand ==
    "git push origin feature/a-very-long-branch-name-that-goes-on-and-on-and-on-for-more-than-eighty-characters"

Commands ==
    { "sudo curl -X POST http://x", "curl -X POST http://x",
      "curl http://x --data a=1", "curl http://a/b-X POST",
      "rm -rf /tmp/x", "sudo rm -rf /", "sudo kill -9 1 && rm -rf /tmp/y",
      "git push --force origin main", "git push origin main",
      "git reset --hard HEAD~1", "git clean -fd", "npm publish",
      "psql -c 'DROP TABLE t'", "drop database d", "chmod 777 run.sh",
      "kill -9 42", "git commit -m \"x\"", "git  commit", "npm test",
      "ls -la", "cat file.txt", "echo hi", "  ls -la  ", "ls\t-la",
      "head -1 f", "tail -f log", "pwd ; ls", "date +%s", "wc -l f",
      "grep -r foo .", "find . -name x", "ls", "pwd", "echo", "make", "",
      "  make  ", "make all", "ls;pwd;date", "cat<in.txt", "lsof -i :80",
      "catalog build", LongCommand }

Descriptions == {"", "Run it"}

BashInputs ==
    {[command |-> Str(c)] : c \in Commands}
    \cup {[command |-> Str(c), description |-> Str(d)] :
            c \in Commands, d \in Descriptions}
    \cup {[command |-> Num(7)], [description |-> Str("Run it")],
          [command |-> Str("npm run build"), description |-> Num(3)]}

InitClassify ==
    /\ pc = "classify"
    /\ block \in {ToolUse("Bash", i) : i \in BashInputs}
    /\ audit = EmptyAudit
    /\ ReaderIdle /\ MainIdle /\ stdout = <<>>

\* the switch of auditSession run on block, at timestamp 1
Classify ==
    /\ pc = "classify"
    /\ audit' = ProcessBlock(audit, 1, block).audit
    /\ pc' = "done"
    /\ UNCHANGED <<file, chunk, position, buffer, block, handed, mainVars, stdout>>

NextClassify == Classify

SpecClassify == InitClassify /\ [][NextClassify]_vars

\* the labels of a list of risk flags, in order
Labels(flags) == [i \in 1..Len(flags) |-> flags[i].label]

Occurrences(seq, x) == Cardinality({i \in 1..Len(seq) : seq[i] = x})

\* the command text of a Bash block; "" where the code takes ''
CommandText(b) ==
    IF "input" \in DOMAIN b /\ "command" \in DOMAIN b.input
       /\ IsString(b.input.command)
    THEN b.input.command.v ELSE ""

HasStringCommand(b) ==
    ~("input" \in DOMAIN b /\ "command" \in DOMAIN b.input
      /\ ~IsString(b.input.command))

ActionsOfType(a, type) == {i \in 1..Len(a.actions) : a.actions[i].type = type}

\* C4: a Bash command of the form `sudo curl -X POST <url>` gets two risk
\* flags, one labeled 'Sudo command' and one labeled 'HTTP POST request'.
C4_SudoCurlPostTwoFlags ==
    (pc = "done" /\ StartsWith(CommandText(block), "sudo curl -X POST "))
        => /\ Occurrences(Labels(audit.riskFlags), "Sudo command") = 1
           /\ Occurrences(Labels(audit.riskFlags), "HTTP POST request") = 1

\* the program a command line starts with: its leading run of word characters
RECURSIVE LeadingWord(_)
LeadingWord(s) ==
    IF s # "" /\ CharAt(s, 1) \in WordChars
    THEN CharAt(s, 1) \o LeadingWord(SubSeq(s, 2, Len(s)))
    ELSE ""

IsNoisyName(w) == \E n \in 1..Len(NoisyPrograms) : NoisyPrograms[n] = w

\* a noisy program name and then a whitespace character start the text
NoisyThenSpace(trimmed) ==
    \E n \in 1..Len(NoisyPrograms) : \E w \in WhiteSpace :
        StartsWith(trimmed, NoisyPrograms[n] \o w)

----------------------------------------------------------------------------
(* SpecAudit: auditSession reading one transcript chunk by chunk *)

\* the most lines a transcript of the model has
MaxLines == 3

\* the largest CHUNK the model reads with
MaxChunk == 4

\* the lines transcripts are made of, in the order they are written
AuditScript ==
    <<"{5}", "{1}", "{6}", "{2}", "{4}", " ", "{3}", "{x", "{w[]}", "{7}", "{1}",
      "{0}">>

RECURSIVE PickLines(_, _)
PickLines(chosen, n) ==
    IF n > Len(AuditScript) THEN <<>>
    ELSE (IF n \in chosen THEN <<AuditScript[n]>> ELSE <<>>)
         \o PickLines(chosen, n + 1)

\* lines joined by newlines, the last one ended by a newline or by the end
\* of the file
RECURSIVE JoinLines(_, _)
JoinLines(lines, terminated) ==
    IF lines = <<>> THEN ""
    ELSE IF Len(lines) = 1
         THEN lines[1] \o (IF terminated THEN "\n" ELSE "")
         ELSE lines[1] \o "\n" \o JoinLines(Tail(lines), terminated)

Transcripts ==
    {JoinLines(PickLines(chosen, 1), terminated) :
        chosen \in {c \in SUBSET (1..Len(AuditScript)) : Cardinality(c) <= MaxLines},
        terminated \in BOOLEAN}

InitAudit ==
    /\ pc = "read"
    /\ file \in Transcripts
    /\ chunk \in 1..MaxChunk
    /\ position = 0
    /\ buffer = ""
    /\ audit = EmptyAudit
    /\ block = NoBlock
    /\ handed = <<>>
    /\ MainIdle /\ stdout = <<>>

\* while (position < fileSize) { read a chunk; process its complete lines }
ReadChunk ==
    /\ pc = "read"
    /\ position < FileSize(file)
    /\ LET st == ReadStep(file, chunk,
                    [position |-> position, buffer |-> buffer, audit |-> audit])
       IN  /\ position' = st.position
           /\ buffer' = st.buffer
           /\ audit' = st.audit
           /\ handed' = handed \o st.lines
    /\ UNCHANGED <<pc, file, chunk, block, mainVars, stdout>>

\* the loop ends: close the file and return the accumulators
Return ==
    /\ pc = "read"
    /\ position >= FileSize(file)
    /\ pc' = "done"
    /\ UNCHANGED <<auditVars, mainVars, stdout>>

NextAudit == ReadChunk \/ Return

SpecAudit == InitAudit /\ [][NextAudit]_vars

\* the lines of a file: the text between its newlines, the text after the
\* last newline included
LinesOf(content) ==
    LET all == Split(toStringUtf8(content))
    IN  [i \in 1..Len(all) |-> all[i]]

EndsWithNewline(content) ==
    content # "" /\ CharAt(content, Len(content)) = "\n"

AllLinesValidJson(content) ==
    \A i \in 1..Len(LinesOf(content)) :
        Trim(LinesOf(content)[i]) = "" \/ JsonParse(LinesOf(content)[i]).ok

\* the tool_use blocks of a record of type 'assistant' whose message.content
\* is an array
ToolUsesOfRecord(record) ==
    IF /\ ~IsNull(record)
       /\ "type" \in DOMAIN record /\ record.type = "assistant"
       /\ "message" \in DOMAIN record /\ "content" \in DOMAIN record.message
       /\ record.message.content.t = "array"
    THEN LET blocks == record.message.content.v
         IN  {i \in 1..Len(blocks) :
                ~IsNull(blocks[i]) /\ "type" \in DOMAIN blocks[i]
                /\ blocks[i].type = "tool_use"}
    ELSE {}

RECURSIVE ToolUseTotal(_, _)
ToolUseTotal(lines, n) ==
    IF n > Len(lines) THEN 0
    ELSE (IF JsonParse(lines[n]).ok
          THEN Cardinality(ToolUsesOfRecord(JsonParse(lines[n]).value))
          ELSE 0)
         + ToolUseTotal(lines, n + 1)

\* C1: for a transcript whose lines are all valid JSON (here even one whose
\* every line ends with a newline), toolCallCount is the number of tool_use
\* blocks in its assistant records with an array content.
C1_ToolCallCountIsBlockCount ==
    (pc = "done" /\ AllLinesValidJson(file) /\ (file = "" \/ EndsWithNewline(file)))
        => audit.toolCallCount = ToolUseTotal(LinesOf(file), 1)

\* C3: a non-empty last line ended by the end of the file is processed like
\* a line ended by a newline: the audit is that of the file with the
\* newline added.
C3_UnterminatedLastLineProcessed ==
    (pc = "done" /\ file # "" /\ ~EndsWithNewline(file))
        => audit = auditSession(file \o "\n", chunk)

\* the tool_use blocks of the assistant records of a list of lines, in order
RECURSIVE ToolUseBlocks(_, _)
ToolUseBlocks(lines, n) ==
    IF n > Len(lines) THEN <<>>
    ELSE (IF JsonParse(lines[n]).ok
          THEN LET record == JsonParse(lines[n]).value
                   uses == ToolUsesOfRecord(record)
               IN  IF uses = {} THEN <<>>
                   ELSE LET blocks == record.message.content.v
                            keep(i) == IF i \in uses THEN <<blocks[i]>> ELSE <<>>
                            RECURSIVE Kept(_)
                            Kept(i) == IF i > Len(blocks) THEN <<>>
                                       ELSE keep(i) \o Kept(i + 1)
                        IN  Kept(1)
          ELSE <<>>)
         \o ToolUseBlocks(lines, n + 1)

HasStringInput(b, name, key, text) ==
    /\ "name" \in DOMAIN b /\ b.name = name
    /\ "input" \in DOMAIN b /\ key \in DOMAIN b.input
    /\ IsString(b.input[key]) /\ b.input[key].v = text

\* the transcript of the end-to-end scenario: exactly three tool
\* invocations, a Write to /home/u/proj/a.py, a Bash `rm -rf /tmp/x` and a
\* Bash `git commit -m "x"`
IsScenario(content) ==
    LET uses == ToolUseBlocks(LinesOf(content), 1)
        one(name, key, text) ==
            Cardinality({i \in 1..Len(uses) :
                            HasStringInput(uses[i], name, key, text)}) = 1
    IN  /\ Len(uses) = 3
        /\ one("Write", "file_path", "/home/u/proj/a.py")
        /\ one("Bash", "command", "rm -rf /tmp/x")
        /\ one("Bash", "command", "git commit -m \"x\"")

GitCommitActions(a) ==
    {i \in 1..Len(a.actions) :
        /\ a.actions[i].type = "git"
        /\ IsString(a.actions[i].detail)
        /\ a.actions[i].detail.v = "Git commit"}

ScenarioResult(a, bashCount) ==
    /\ a.filesCreated = <<"~/proj/a.py">>
    /\ a.toolCallCount = 3
    /\ Labels(a.riskFlags) = <<"Recursive delete (rm -rf)">>
    /\ Cardinality(GitCommitActions(a)) = 1
    /\ Len(a.bashCommands) = bashCount

TerminatedLines(content) ==
    LET all == Split(toStringUtf8(content))
    IN  SubSeq(all, 1, Len(all) - 1)

\* C11: the newline-terminated lines the read loop hands to the classifier
\* are, for every content and every chunk size, the lines of the whole
\* content split at newlines, each once, whole and in order.
C11_LinesIndependentOfChunks ==
    pc = "done" => handed = TerminatedLines(file)

\* a line fails JSON parsing: it is not blank and JSON.parse throws on it
FailsJsonParsing(bytes) ==
    Trim(toStringUtf8(bytes)) # "" /\ ~JsonParse(toStringUtf8(bytes)).ok

\* the bytes of lines n.. of a file, each line that fails JSON parsing
\* removed together with the newline that ends it
RECURSIVE WithoutInvalidFrom(_, _)
WithoutInvalidFrom(lines, n) ==
    IF n > Len(lines) THEN ""
    ELSE (IF FailsJsonParsing(lines[n]) THEN ""
          ELSE lines[n] \o (IF n < Len(lines) THEN "\n" ELSE ""))
         \o WithoutInvalidFrom(lines, n + 1)

WithoutInvalidLines(content) == WithoutInvalidFrom(Split(content), 1)

HasInvalidLine(content) ==
    \E n \in 1..Len(Split(content)) : FailsJsonParsing(Split(content)[n])

\* C12: lines that fail JSON parsing are skipped without effect: the audit
\* of a transcript is the audit of the same transcript with its invalid
\* lines removed.
C12_InvalidLinesSkipped ==
    (pc = "done" /\ HasInvalidLine(file))
        => audit = auditSession(WithoutInvalidLines(file), chunk)

----------------------------------------------------------------------------
(* The report: formatTime, formatDate, formatDuration, printSessionSummary *)
(* A timestamp is a whole number of hours since 2026-02-01 00:00, local    *)
(* time; Date is the number of milliseconds.                               *)

HourMs == 3600000

\* new Date(ts) - 0
DateMs(ts) == ts * HourMs

\* String(n).padStart(2, '0')
PadStart2(n) == IF n < 10 THEN "0" \o ToString(n) ELSE ToString(n)

formatTime(ts) ==
    IF ts = NoTimestamp THEN "??:??"
    ELSE PadStart2((DateMs(ts) \div HourMs) % 24) \o ":"
         \o PadStart2((DateMs(ts) % HourMs) \div 60000)

\* formatDate without padStart
formatDateUnpadded(ts) ==
    IF ts = NoTimestamp THEN "????-??-??"
    ELSE "2026-" \o ToString(2) \o "-" \o ToString(DateMs(ts) \div (24 * HourMs) + 1)

formatDate(ts) ==
    IF ts = NoTimestamp THEN "????-??-??"
    ELSE "2026-" \o PadStart2(2) \o "-" \o PadStart2(DateMs(ts) \div (24 * HourMs) + 1)

formatDuration(ms) ==
    LET h == ms \div 3600000
        m == (ms % 3600000) \div 60000
    IN  IF h > 0 THEN ToString(h) \o "h " \o ToString(m) \o "m"
        ELSE ToString(m) \o "m"

\* (size / 1048576).toFixed(1)
SizeMB(size) ==
    LET tenths == (size * 10 + 524288) \div 1048576
    IN  ToString(tenths \div 10) \o "." \o ToString(tenths % 10)

\* a === b
StrictEq(a, b) ==
    IF a.t # b.t THEN FALSE
    ELSE IF a.t \in {"string", "number"} THEN a.v = b.v
    ELSE TRUE

\* the timeline with every action shown
DeduplicateNothing(actions, n, lastDetail) == actions

\* the loop that drops an action whose detail equals the last one shown
RECURSIVE Deduplicate(_, _, _)
Deduplicate(actions, n, lastDetail) ==
    IF n > Len(actions) THEN <<>>
    ELSE IF StrictEq(actions[n].detail, lastDetail)
         THEN Deduplicate(actions, n + 1, lastDetail)
         ELSE <<actions[n]>> \o Deduplicate(actions, n + 1, actions[n].detail)

\* the most actions the timeline shows
MaxShown == 30

\* the most files of either kind 'Files Touched' lists
MaxFilesListed == 15

Line(kind, fields) == [kind |-> kind] @@ fields

Icon(type) ==
    CASE type = "create" -> "+" [] type = "modify" -> "~" [] type = "git" -> "G"
      [] type = "bash" -> "$" [] type = "task" -> "T" [] OTHER -> "."

KeyActions(a) ==
    IF Len(a.actions) > 0
    THEN LET shown == Deduplicate(a.actions, 1, Str(""))
             display == IF Len(shown) > MaxShown THEN SubSeq(shown, 1, MaxShown)
                        ELSE shown
         IN  <<Line("blank", <<>>), Line("heading", [text |-> "Key Actions"])>>
             \o [i \in 1..Len(display) |->
                    Line("action", [time |-> formatTime(display[i].ts),
                                    icon |-> Icon(display[i].type),
                                    detail |-> ToStr(display[i].detail)])]
             \o (IF Len(shown) > MaxShown
                 THEN <<Line("more", [count |-> Len(shown) - MaxShown])>>
                 ELSE <<>>)
    ELSE <<>>

RiskFlags(a) ==
    <<Line("blank", <<>>), Line("heading", [text |-> "Risk Flags"])>>
    \o (IF Len(a.riskFlags) = 0 THEN <<Line("none", <<>>)>>
        ELSE [i \in 1..Len(a.riskFlags) |->
                Line("risk", [label |-> a.riskFlags[i].label,
                              time |-> formatTime(a.riskFlags[i].ts),
                              cmd |-> ToStr(a.riskFlags[i].cmd)])])

FilesTouched(a) ==
    IF Len(a.filesCreated) > 0 \/ Len(a.filesModified) > 0
    THEN LET new == SubSeq(a.filesCreated, 1, Min(MaxFilesListed, Len(a.filesCreated)))
             mod == SubSeq(a.filesModified, 1, Min(MaxFilesListed, Len(a.filesModified)))
             total == Len(a.filesCreated) + Len(a.filesModified)
         IN  <<Line("blank", <<>>), Line("heading", [text |-> "Files Touched"])>>
             \o [i \in 1..Len(new) |-> Line("file", [tag |-> "NEW", path |-> new[i]])]
             \o [i \in 1..Len(mod) |-> Line("file", [tag |-> "MOD", path |-> mod[i]])]
             \o (IF total > 30 THEN <<Line("morefiles", [count |-> total - 30])>>
                 ELSE <<>>)
    ELSE <<>>

\* what printSessionSummary(session, audit) writes
printSessionSummary(session, a) ==
    <<Line("blank", <<>>),
      Line("session", [date |-> formatDate(session.startTs),
                       start |-> formatTime(session.startTs),
                       end |-> formatTime(session.endTs),
                       duration |-> IF session.endTs # NoTimestamp
                                    THEN formatDuration(DateMs(session.endTs)
                                                        - DateMs(session.startTs))
                                    ELSE "?"]),
      Line("project", [name |-> session.projectName,
                       subagent |-> session.isSubagent,
                       sizeMB |-> SizeMB(session.size)]),
      Line("blank", <<>>),
      Line("heading", [text |-> "Summary"]),
      Line("summary", [toolCalls |-> a.toolCallCount,
                       filesCreated |-> Len(a.filesCreated),
                       filesModified |-> Len(a.filesModified),
                       filesRead |-> Len(a.filesRead),
                       bashCommands |-> Len(a.bashCommands),
                       gitCommits |-> Len(a.gitCommits)])>>
    \o KeyActions(a) \o RiskFlags(a) \o FilesTouched(a)

----------------------------------------------------------------------------
(* SpecPrint: printSessionSummary on the action list of an audit *)

\* the longest action list of the model
MaxActions == 33

\* the most actions of a list that repeat the detail of the action before
MaxRepeats == 2

\* details auditSession gives its actions
Details == <<Str("Created ~/proj/a.py"), Str("Run it"), Str("Git commit")>>

TypeOfDetail == <<"create", "bash", "git">>

Repeats(actions) ==
    Cardinality({i \in 2..Len(actions) :
                    StrictEq(actions[i].detail, actions[i - 1].detail)})

PrintedSession ==
    [filePath |-> "~/.claude/projects/-home-u-projects-app/s.jsonl",
     projectName |-> "app", startTs |-> 1, endTs |-> 7, size |-> 4096,
     isSubagent |-> FALSE]

InitPrint ==
    /\ pc = "audit"
    /\ audit = EmptyAudit
    /\ stdout = <<>>
    /\ block = NoBlock
    /\ ReaderIdle /\ MainIdle

\* actions.push(...) as the audit goes on: the new action repeats the detail
\* of the last one or has the next detail
PushAction ==
    /\ pc = "audit"
    /\ Len(audit.actions) < MaxActions
    /\ \E repeat \in BOOLEAN :
         LET n == Len(audit.actions)
             k == ((n - Repeats(audit.actions)) % Len(Details)) + 1
         IN  IF repeat
             THEN /\ n > 0
                  /\ Repeats(audit.actions) < MaxRepeats
                  /\ audit' = [audit EXCEPT !.actions =
                                  Append(@, [@[n] EXCEPT !.ts = (n + 1) % 24])]
             ELSE audit' = [audit EXCEPT !.actions =
                              Append(@, Action((n + 1) % 24, TypeOfDetail[k], Details[k]))]
    /\ UNCHANGED <<pc, file, chunk, position, buffer, block, handed, mainVars,
                   stdout>>

\* printSessionSummary(session, audit)
PrintSummary ==
    /\ pc = "audit"
    /\ stdout' = printSessionSummary(PrintedSession, audit)
    /\ pc' = "done"
    /\ UNCHANGED <<auditVars, mainVars>>

NextPrint == PushAction \/ PrintSummary

SpecPrint == InitPrint /\ [][NextPrint]_vars

\* the lines of the timeline, in order
RECURSIVE TimelineOf(_, _)
TimelineOf(out, n) ==
    IF n > Len(out) THEN <<>>
    ELSE (IF out[n].kind = "action" THEN <<out[n]>> ELSE <<>>)
         \o TimelineOf(out, n + 1)

\* the places where a maximal run of actions of equal detail starts, in order
RECURSIVE RunStartsFrom(_, _)
RunStartsFrom(actions, i) ==
    IF i > Len(actions) THEN <<>>
    ELSE (IF i = 1 \/ ~StrictEq(actions[i].detail, actions[i - 1].detail)
          THEN <<i>> ELSE <<>>)
         \o RunStartsFrom(actions, i + 1)

RunStarts(actions) == RunStartsFrom(actions, 1)

LineOfAction(a) ==
    Line("action", [time |-> formatTime(a.ts), icon |-> Icon(a.type),
                    detail |-> ToStr(a.detail)])

\* the timeline that shows the first action of each of the first n runs
OneLinePerRun(actions, starts, n) ==
    [k \in 1..n |-> LineOfAction(actions[starts[k]])]

\* C8 as claimed: the rendered timeline holds exactly one line for every
\* maximal run of actions of equal detail, wherever the run lies.
C8_OneLinePerRun ==
    pc = "done" =>
        LET starts == RunStarts(audit.actions)
        IN  TimelineOf(stdout, 1) = OneLinePerRun(audit.actions, starts, Len(starts))

\* C8 as amended: the rendered timeline holds exactly one line for each of
\* the first 30 maximal runs, and no line for a later run.
C8_OneLinePerRunUpToCap ==
    pc = "done" =>
        LET starts == RunStarts(audit.actions)
        IN  TimelineOf(stdout, 1)
                = OneLinePerRun(audit.actions, starts, Min(30, Len(starts)))

\* a list with a run of several equal details and more than 30 runs has
\* been printed
C8_Witness ==
    /\ pc = "done"
    /\ Repeats(audit.actions) > 0
    /\ Len(RunStarts(audit.actions)) > 30

----------------------------------------------------------------------------
(* Discovery: readFirstLastLine, cleanProjectName, findSessions *)

\* HEAD_BUF = 8192 and TAIL_BUF = 65536, in the scale of the model's records
\* (a record text "{1}" stands for a line of about 3 KB)
HEAD_BUF == 8
TAIL_BUF == 12

Max(x, y) == IF x >= y THEN x ELSE y

\* String.prototype.indexOf('\n'), 0-based, -1 where there is none
RECURSIVE IndexOfNewline(_, _)
IndexOfNewline(s, i) ==
    IF i > Len(s) THEN 0 - 1
    ELSE IF CharAt(s, i) = "\n" THEN i - 1
    ELSE IndexOfNewline(s, i + 1)

\* lines.filter(l => l.trim())
RECURSIVE NonBlank(_, _)
NonBlank(lines, n) ==
    IF n > Len(lines) THEN <<>>
    ELSE (IF Trim(lines[n]) # "" THEN <<lines[n]>> ELSE <<>>) \o NonBlank(lines, n + 1)

readFirstLastLine(content) ==
    LET headStr == toStringUtf8(SubSeq(content, 1, Min(HEAD_BUF, Len(content))))
        firstNewline == IndexOfNewline(headStr, 1)
        tailStart == Max(0, FileSize(content) - TAIL_BUF)
        tailStr == toStringUtf8(SubSeq(content, tailStart + 1,
                                       Min(Len(content), tailStart + TAIL_BUF)))
        lines == NonBlank(Split(tailStr), 1)
    IN  [firstLine |-> IF firstNewline > 0 THEN SliceTo(headStr, firstNewline)
                       ELSE headStr,
         lastLine |-> IF Len(lines) > 0 THEN lines[Len(lines)] ELSE "",
         size |-> FileSize(content)]

\* parts.filter(Boolean)
RECURSIVE NonEmpty(_, _)
NonEmpty(parts, n) ==
    IF n > Len(parts) THEN <<>>
    ELSE (IF parts[n] # "" THEN <<parts[n]>> ELSE <<>>) \o NonEmpty(parts, n + 1)

\* Array.prototype.join('-')
RECURSIVE JoinDash(_)
JoinDash(parts) ==
    IF parts = <<>> THEN ""
    ELSE IF Len(parts) = 1 THEN parts[1]
    ELSE parts[1] \o "-" \o JoinDash(Tail(parts))

cleanProjectName(dirName) ==
    IF StartsWith(dirName, "-tmp") THEN "/tmp"
    ELSE LET parts == NonEmpty(SplitOn(dirName, "-"), 1)
         IN  IF Len(parts) >= 2 /\ parts[1] = "home"
             THEN LET rest == SubSeq(parts, 3, Len(parts))
                      shifted == IF rest # <<>> /\ rest[1] = "projects"
                                 THEN Tail(rest) ELSE rest
                  IN  IF JoinDash(shifted) = "" THEN "~" ELSE JoinDash(shifted)
             ELSE dirName

\* String.prototype.endsWith
EndsWith(s, suffix) ==
    /\ Len(suffix) <= Len(s)
    /\ SubSeq(s, Len(s) - Len(suffix) + 1, Len(s)) = suffix

\* join(PROJECTS_DIR, dir, file) and join(PROJECTS_DIR, dir, 'subagents', file)
PathOf(f) ==
    "~/.claude/projects/" \o f.dir \o (IF f.sub THEN "/subagents/" ELSE "/") \o f.name

\* first.timestamp || first.snapshot?.timestamp
TimestampOf(record) ==
    IF "timestamp" \in DOMAIN record THEN record.timestamp
    ELSE IF "snapshot" \in DOMAIN record /\ "timestamp" \in DOMAIN record.snapshot
         THEN record.snapshot.timestamp
         ELSE NoTimestamp

\* the body of the try of one file: the session pushed, or nothing
SessionOf(f, targetDate) ==
    IF ~f.present THEN <<>>                                  \* open throws
    ELSE LET r == readFirstLastLine(f.content)
             first == JsonParse(r.firstLine)
             last == JsonParse(r.lastLine)
         IN  IF ~first.ok \/ ~last.ok THEN <<>>              \* JSON.parse throws
             ELSE IF IsNull(first.value) \/ IsNull(last.value) THEN <<>>
             ELSE IF TimestampOf(first.value) = NoTimestamp THEN <<>>
             ELSE IF targetDate # "" /\ formatDate(TimestampOf(first.value)) # targetDate
             THEN <<>>
             ELSE <<[filePath |-> PathOf(f),
                     projectName |-> cleanProjectName(f.dir),
                     startTs |-> TimestampOf(first.value),
                     endTs |-> TimestampOf(last.value),
                     size |-> r.size,
                     isSubagent |-> f.sub]>>

\* the directories of PROJECTS_DIR in the order readdir lists them
RECURSIVE DirsOf(_, _, _)
DirsOf(files, n, seen) ==
    IF n > Len(files) THEN <<>>
    ELSE IF files[n].dir \in seen THEN DirsOf(files, n + 1, seen)
    ELSE <<files[n].dir>> \o DirsOf(files, n + 1, seen \cup {files[n].dir})

\* one of the two scans of a directory: its .jsonl files, main or subagent
RECURSIVE ScanFiles(_, _, _, _, _)
ScanFiles(files, n, dir, sub, targetDate) ==
    IF n > Len(files) THEN <<>>
    ELSE (IF files[n].dir = dir /\ files[n].sub = sub /\ EndsWith(files[n].name, ".jsonl")
          THEN SessionOf(files[n], targetDate) ELSE <<>>)
         \o ScanFiles(files, n + 1, dir, sub, targetDate)

RECURSIVE ScanDirs(_, _, _, _)
ScanDirs(files, dirs, n, targetDate) ==
    IF n > Len(dirs) THEN <<>>
    ELSE ScanFiles(files, 1, dirs[n], FALSE, targetDate)
         \o ScanFiles(files, 1, dirs[n], TRUE, targetDate)
         \o ScanDirs(files, dirs, n + 1, targetDate)

\* (a, b) => new Date(a.startTs) - new Date(b.startTs)  is negative
SortsBefore(a, b) == DateMs(a.startTs) - DateMs(b.startTs) < 0

\* Array.prototype.sort, which is stable: x goes behind the elements that do
\* not sort after it
RECURSIVE InsertSorted(_, _)
InsertSorted(sorted, x) ==
    IF sorted = <<>> THEN <<x>>
    ELSE IF SortsBefore(x, sorted[Len(sorted)])
         THEN Append(InsertSorted(SubSeq(sorted, 1, Len(sorted) - 1), x),
                     sorted[Len(sorted)])
         ELSE Append(sorted, x)

RECURSIVE SortSessions(_, _, _)
SortSessions(list, n, sorted) ==
    IF n > Len(list) THEN sorted
    ELSE SortSessions(list, n + 1, InsertSorted(sorted, list[n]))

findSessions(files, targetDate) ==
    SortSessions(ScanDirs(files, DirsOf(files, 1, {}), 1, targetDate), 1, <<>>)

----------------------------------------------------------------------------
(* Spec: main, from the arguments to the end of the process *)

\* the most transcript files under PROJECTS_DIR
MaxFiles == 3

\* the most files that disappear between discovery and audit
MaxVanished == 1

\* new Date() when main runs: 2026-02-03 04:00
NowTs == 52

File(dir, sub, name, content) ==
    [dir |-> dir, sub |-> sub, name |-> name, content |-> content, present |-> TRUE]

App == "-home-u-projects-app"

\* the files a disk of the model is made of, in the order readdir lists them
DiskScript == <<
    File(App, FALSE, "s1.jsonl", "{5}\n{1}\n"),
    File(App, FALSE, "s2.jsonl", "{a}\n{7}\n"),
    File(App, TRUE, "agent-1.jsonl", "{a}\n{2}\n"),
    File(App, FALSE, "s3.jsonl", "{8}\n{4}\n"),
    File(App, FALSE, "s4.jsonl", "{c}\n{1}\n{x"),
    File(App, FALSE, "notes.txt", "{c}\n{1}\n"),
    File(App, FALSE, "s5.jsonl", "{9}\n{1}\n"),
    File("-tmp-x", FALSE, "s6.jsonl", "{c}\n{3}\n \n"),
    File("-tmp-x", FALSE, "s7.jsonl", "{5......}\n{1}\n"),
    File("-tmp-x", TRUE, "agent-2.jsonl", "{c}\n{1..........}\n"),
    File("-tmp-x", FALSE, "s8.jsonl", "{c}\n{0}\n") >>

RECURSIVE PickFiles(_, _)
PickFiles(chosen, n) ==
    IF n > Len(DiskScript) THEN <<>>
    ELSE (IF n \in chosen THEN <<DiskScript[n]>> ELSE <<>>) \o PickFiles(chosen, n + 1)

Disks ==
    {[readable |-> TRUE, files |-> PickFiles(chosen, 1)] :
        chosen \in {c \in SUBSET (1..Len(DiskScript)) : Cardinality(c) <= MaxFiles}}
    \cup {[readable |-> FALSE, files |-> <<>>]}

ArgLists ==
    { <<>>, <<"--last", "2">>, <<"-n", "3">>, <<"--all">>,
      <<"--date", "2026-02-02">>, <<"--today">>, <<"--json">>,
      <<"-j", "-d", "2026-02-02">>, <<"--help">> }

Digits == "0123456789"

DigitValue(c) == (CHOOSE i \in 1..10 : CharAt(Digits, i) = c) - 1

RECURSIVE LeadingNumber(_, _, _)
LeadingNumber(s, i, acc) ==
    IF i <= Len(s) /\ CharAt(s, i) \in Chars(Digits)
    THEN LeadingNumber(s, i + 1, acc * 10 + DigitValue(CharAt(s, i)))
    ELSE acc

\* parseInt(s) || 1: NaN and 0 give 1
ParseIntOr1(s) ==
    LET t == TrimStart(s)
        negative == t # "" /\ CharAt(t, 1) = "-"
        digits == IF t # "" /\ CharAt(t, 1) \in {"-", "+"}
                  THEN SubSeq(t, 2, Len(t)) ELSE t
    IN  IF digits = "" \/ CharAt(digits, 1) \notin Chars(Digits) THEN 1
        ELSE LET n == LeadingNumber(digits, 1, 0)
             IN  IF n = 0 THEN 1 ELSE IF negative THEN 0 - n ELSE n

\* args[++i], "" where it is undefined
ArgAt(list, i) == IF i <= Len(list) THEN list[i] ELSE ""

\* the loop over the arguments; help is TRUE where it reaches --help
RECURSIVE ParseArgsFrom(_, _, _)
ParseArgsFrom(list, i, o) ==
    IF i > Len(list) THEN o
    ELSE IF list[i] \in {"--date", "-d"}
         THEN ParseArgsFrom(list, i + 2, [o EXCEPT !.targetDate = ArgAt(list, i + 1)])
    ELSE IF list[i] \in {"--today", "-t"}
         THEN ParseArgsFrom(list, i + 1, [o EXCEPT !.targetDate = formatDate(NowTs)])
    ELSE IF list[i] \in {"--all", "-a"}
         THEN ParseArgsFrom(list, i + 1, [o EXCEPT !.showAll = TRUE])
    ELSE IF list[i] \in {"--last", "-n"}
         THEN ParseArgsFrom(list, i + 2,
                            [o EXCEPT !.lastN = ParseIntOr1(ArgAt(list, i + 1))])
    ELSE IF list[i] \in {"--help", "-h"}
         THEN [o EXCEPT !.help = TRUE]
    ELSE ParseArgsFrom(list, i + 1, o)

\* Array.prototype.slice(start)
SliceSeq(seq, start) ==
    LET from == IF start < 0 THEN Max(Len(seq) + start, 0) ELSE Min(start, Len(seq))
    IN  SubSeq(seq, from + 1, Len(seq))

\* mainSessions.slice(0, lastN): the first N instead of the last N
SelectFirstN(list, o) ==
    IF o.showAll \/ o.targetDate # "" THEN list
    ELSE LET mainSessions == SelectSeq(list, LAMBDA x : ~x.isSubagent)
         IN  SubSeq(mainSessions, 1, Min(o.lastN, Len(mainSessions)))

\* Select sessions to audit
SelectSessionsToAudit(list, o) ==
    IF o.showAll \/ o.targetDate # "" THEN list
    ELSE SliceSeq(SelectSeq(list, LAMBDA x : ~x.isSubagent), 0 - o.lastN)

RECURSIVE FileAt(_, _, _)
FileAt(files, path, n) ==
    IF PathOf(files[n]) = path THEN files[n] ELSE FileAt(files, path, n + 1)

InitMain ==
    /\ pc = "main"
    /\ args \in ArgLists
    /\ disk \in Disks
    /\ opts = NoOpts
    /\ sessions = <<>> /\ toAudit = <<>> /\ idx = 1
    /\ totals = NoTotals
    /\ stdout = <<>> /\ stderr = <<>>
    /\ exitCode = Running
    /\ file = "" /\ chunk = MaxChunk /\ position = 0 /\ buffer = ""
    /\ audit = EmptyAudit /\ block = NoBlock /\ handed = <<>>

\* main up to its first await: the arguments, the header
ParseArgs ==
    /\ pc = "main"
    /\ LET o == ParseArgsFrom(args, 1, NoOpts @@ [help |-> FALSE])
       IN  IF o.help
           THEN /\ stdout' = Append(stdout, Line("help", <<>>))
                /\ exitCode' = 0
                /\ pc' = "exited"
                /\ opts' = opts
           ELSE /\ opts' = [targetDate |-> o.targetDate, showAll |-> o.showAll,
                            lastN |-> o.lastN]
                /\ stdout' = stdout \o <<Line("header", <<>>), Line("scanning", <<>>)>>
                /\ exitCode' = exitCode
                /\ pc' = "scan"
    /\ UNCHANGED <<auditVars, args, disk, sessions, toAudit, idx, totals, stderr>>

\* const sessions = await findSessions(targetDate)
FindSessions ==
    /\ pc = "scan"
    /\ IF ~disk.readable
       THEN /\ stderr' = Append(stderr, Line("cannot-read", <<>>))
            /\ exitCode' = 1
            /\ pc' = "exited"
            /\ sessions' = sessions
       ELSE /\ sessions' = findSessions(disk.files, opts.targetDate)
            /\ pc' = "select"
            /\ UNCHANGED <<stderr, exitCode>>
    /\ UNCHANGED <<auditVars, args, opts, disk, toAudit, idx, totals, stdout>>

\* from  if (sessions.length === 0)  to the line 'Found ... Auditing ...'
SelectSessions ==
    /\ pc = "select"
    /\ IF Len(sessions) = 0
       THEN /\ stdout' = Append(stdout, Line("no-sessions", [date |-> opts.targetDate]))
            /\ exitCode' = 0
            /\ pc' = "exited"
            /\ toAudit' = toAudit
       ELSE /\ toAudit' = SelectSessionsToAudit(sessions, opts)
            /\ stdout' = Append(stdout,
                    Line("found", [count |-> Len(sessions), date |-> opts.targetDate,
                                   auditing |-> Len(SelectSessionsToAudit(sessions, opts))]))
            /\ exitCode' = exitCode
            /\ pc' = "audit"
    /\ UNCHANGED <<auditVars, args, opts, disk, sessions, idx, totals, stderr>>

\* one turn of  for (const session of toAudit): open throws where the file
\* is gone, and main().catch ends the process
AuditNext ==
    /\ pc = "audit"
    /\ idx <= Len(toAudit)
    /\ LET session == toAudit[idx]
           f == FileAt(disk.files, session.filePath, 1)
           a == auditSession(f.content, chunk)
       IN  IF ~f.present
           THEN /\ stderr' = stderr \o <<Line("auditing", [name |-> session.projectName]),
                                         Line("error", [message |-> "ENOENT"])>>
                /\ exitCode' = 1
                /\ pc' = "failed"
                /\ UNCHANGED <<audit, idx, totals, stdout>>
           ELSE /\ stderr' = Append(stderr, Line("auditing", [name |-> session.projectName]))
                /\ audit' = a
                /\ stdout' = stdout \o printSessionSummary(session, a)
                /\ totals' = [tools |-> totals.tools + a.toolCallCount,
                              created |-> totals.created + Len(a.filesCreated),
                              modified |-> totals.modified + Len(a.filesModified),
                              bash |-> totals.bash + Len(a.bashCommands),
                              commits |-> totals.commits + Len(a.gitCommits),
                              risks |-> totals.risks + Len(a.riskFlags)]
                /\ idx' = idx + 1
                /\ UNCHANGED <<pc, exitCode>>
    /\ UNCHANGED <<file, chunk, position, buffer, block, handed, args, opts, disk, sessions,
                   toAudit>>

\* the totals, the share text, and the end of main
Finish ==
    /\ pc = "audit"
    /\ idx > Len(toAudit)
    /\ stdout' = stdout
            \o (IF Len(toAudit) > 1
                THEN <<Line("blank", <<>>), Line("rule", <<>>),
                       Line("totals", [sessions |-> Len(toAudit)] @@ totals)>>
                ELSE <<>>)
            \o <<Line("blank", <<>>), Line("rule", <<>>),
                 Line("share", [tools |-> totals.tools, created |-> totals.created,
                                bash |-> totals.bash, commits |-> totals.commits,
                                risks |-> IF totals.risks > 0 THEN totals.risks ELSE 0]),
                 Line("hashtags", <<>>), Line("blank", <<>>)>>
    /\ exitCode' = 0
    /\ pc' = "done"
    /\ UNCHANGED <<auditVars, args, opts, disk, sessions, toAudit, idx, totals, stderr>>

Vanished(files) == {i \in 1..Len(files) : ~files[i].present}

\* the transcript of a session yet to be audited is removed while main runs
FileVanishes ==
    /\ pc = "audit"
    /\ Cardinality(Vanished(disk.files)) < MaxVanished
    /\ \E i \in 1..Len(disk.files) :
         /\ disk.files[i].present
         /\ \E k \in idx..Len(toAudit) : toAudit[k].filePath = PathOf(disk.files[i])
         /\ disk' = [disk EXCEPT !.files[i].present = FALSE]
    /\ UNCHANGED <<pc, auditVars, args, opts, sessions, toAudit, idx, totals, stdout,
                   stderr, exitCode>>

Next == ParseArgs \/ FindSessions \/ SelectSessions \/ AuditNext \/ Finish \/ FileVanishes

Spec == InitMain /\ [][Next]_vars

\* main has chosen the sessions to audit
Selected == pc \in {"audit", "done", "failed"}

SessionLines(out) == {i \in 1..Len(out) : out[i].kind = "session"}

\* the selected sessions whose transcript is still on the disk
PresentSelected ==
    {k \in 1..Len(toAudit) : FileAt(disk.files, toAudit[k].filePath, 1).present}

\* C2: when a selected session's transcript cannot be opened during the
\* audit, only that session is skipped: the run ends with exit status 0 and
\* has reported every other selected session.
C2_UnreadableSessionIsSkipped ==
    pc \in {"done", "failed"} =>
        /\ exitCode = 0
        /\ Cardinality(SessionLines(stdout)) = Cardinality(PresentSelected)

MainSessions == {i \in 1..Len(sessions) : ~sessions[i].isSubagent}

\* C7: with no date filter and no 'all' mode, for N >= 1 the selected
\* sessions are the N discovered non-subagent sessions with the latest start
\* timestamps (all of them when there are fewer than N), in ascending order
\* of start timestamp, and no subagent session is selected.
C7_DefaultSelectsLatestMain ==
    (Selected /\ opts.targetDate = "" /\ ~opts.showAll /\ opts.lastN >= 1) =>
        /\ Len(toAudit) = Min(opts.lastN, Cardinality(MainSessions))
        /\ \A k \in 1..Len(toAudit) :
              /\ ~toAudit[k].isSubagent
              /\ \E i \in MainSessions : sessions[i] = toAudit[k]
        /\ \A k, l \in 1..Len(toAudit) :
              k < l => /\ toAudit[k].filePath # toAudit[l].filePath
                       /\ toAudit[k].startTs <= toAudit[l].startTs
        /\ \A i \in MainSessions :
              (\A k \in 1..Len(toAudit) : toAudit[k].filePath # sessions[i].filePath)
                  => \A k \in 1..Len(toAudit) : sessions[i].startTs <= toAudit[k].startTs

\* the last 2 of 3 main sessions, which the disk lists out of order, have
\* been selected
C7_Witness ==
    /\ Selected /\ opts.targetDate = "" /\ ~opts.showAll /\ opts.lastN = 2
    /\ Cardinality(MainSessions) = 3
    /\ Len(toAudit) = 2
    /\ toAudit[1].startTs = 30 /\ toAudit[2].startTs = 50
    /\ sessions[1].startTs = 26

\* the local calendar date of a timestamp
CalendarDate(ts) ==
    LET day == ts \div 24
    IN  CASE day = 0 -> "2026-02-01" [] day = 1 -> "2026-02-02"
          [] day = 2 -> "2026-02-03" [] OTHER -> "later"

TranscriptFiles == {i \in 1..Len(disk.files) : EndsWith(disk.files[i].name, ".jsonl")}

\* the first record of a file starts on the date
StartsOn(record, date) ==
    /\ record.ok /\ ~IsNull(record.value)
    /\ TimestampOf(record.value) # NoTimestamp
    /\ CalendarDate(TimestampOf(record.value)) = date

ReturnedPaths == {sessions[i].filePath : i \in 1..Len(sessions)}

\* C9 as claimed: findSessions called with a date D returns exactly the
\* transcript files, main and subagent, whose first record carries a start
\* timestamp whose local date is D, whatever their last line holds.
C9_ExactlyTheSessionsOfTheDate ==
    (pc = "select" /\ opts.targetDate # "") =>
        /\ ReturnedPaths =
             {PathOf(disk.files[i]) : i \in {j \in TranscriptFiles :
                StartsOn(JsonParse(Split(disk.files[j].content)[1]), opts.targetDate)}}
        /\ Len(sessions) = Cardinality(ReturnedPaths)

\* C9 as amended: findSessions called with a date D returns exactly the
\* transcript files, main and subagent, whose sampled first line and sampled
\* last non-blank line both parse as JSON records and whose first record
\* carries a start timestamp whose local date is D.
C9_ExactlyTheParsableSessionsOfTheDate ==
    (pc = "select" /\ opts.targetDate # "") =>
        /\ ReturnedPaths =
             {PathOf(disk.files[i]) : i \in {j \in TranscriptFiles :
                LET sample == readFirstLastLine(disk.files[j].content)
                IN  /\ StartsOn(JsonParse(sample.firstLine), opts.targetDate)
                    /\ JsonParse(sample.lastLine).ok
                    /\ ~IsNull(JsonParse(sample.lastLine).value)}}
        /\ Len(sessions) = Cardinality(ReturnedPaths)

\* a main and a subagent session of the date were returned, and a third
\* file of the date, whose last line is no JSON, was left out
C9_Witness ==
    /\ pc = "select" /\ opts.targetDate = "2026-02-02"
    /\ Len(sessions) = 2
    /\ \E i \in 1..2 : sessions[i].isSubagent
    /\ \E i \in 1..Len(disk.files) : disk.files[i].name = "s4.jsonl"

JsonRequested == \E i \in 1..Len(args) : args[i] \in {"--json", "-j"}

\* C10: with --json or -j among the arguments, the run writes one JSON
\* document to stdout instead of the formatted report.
C10_JsonToggleWritesOneDocument ==
    (pc = "done" /\ JsonRequested) =>
        /\ Len(stdout) = 1
        /\ stdout[1].kind = "json"

====
